---- MODULE Spec2Model ----
(***************************************************************************)
(* Model of src/cmd_line/commandLine.ts: the CommandLine dispatcher (Run), *)
(* the quick-pick prompt (PromptAndRun / promptForCommand) and the two     *)
(* history stores (CommandLineHistory and the memento under                *)
(* VIM_HISTORY_KEY).                                                       *)
(*                                                                         *)
(* Strings are sequences of one-character strings, so that slicing,        *)
(* startsWith and template concatenation are computed as the code does.    *)
(***************************************************************************)
EXTENDS Integers, Sequences, FiniteSets, TLC

\* ------------------------------------------------------------------ bounds
\* longest HistoryStore the model lets grow (the store itself is unbounded)
MaxHistory == 2
\* longest list kept under VIM_HISTORY_KEY (the list itself is unbounded)
MaxStore == 2

\* ----------------------------------------------------------------- strings
\* JavaScript `undefined` where a string is expected; never a real string,
\* since every real character is a one-character string.
Undefined == <<"undefined">>

HelpText == <<"h", "e", "l", "p">>
ColonHelp == <<":">> \o HelpText
W == <<"w">>
ColonW == <<":", "w">>
SpaceW == <<" ", "w">>
Colon == <<":">>
Empty == <<>>

\* texts a caller passes to Run directly
RunTexts == {Undefined, Empty, Colon, HelpText, ColonHelp, W, ColonW}
\* seed texts and typed values of the prompt
PromptTexts == {Empty, W, SpaceW, HelpText}
\* seed texts a caller passes to ShowHistory
ShowTexts == {Empty, W}
\* status texts the fallback engine may return
NvimTexts == {Empty, <<"o", "k">>}

\* `:help Not supported.`
HelpNotSupported ==
  <<":", "h", "e", "l", "p", " ", "N", "o", "t", " ",
    "s", "u", "p", "p", "o", "r", "t", "e", "d", ".">>

\* a falsy check that lets the empty string through
FalsyOnlyUndefined(s) == s = Undefined

\* !command || command.length === 0
Falsy(s) == s = Undefined \/ Len(s) = 0

\* a strip that leaves the text as it was typed
StripNothing(s) == s

\* if (command && command[0] === ':') command = command.slice(1)
StripColon(s) == IF s # Undefined /\ Len(s) > 0 /\ s[1] = ":" THEN Tail(s) ELSE s

\* label.startsWith(' ')
StartsWithSpace(s) == Len(s) > 0 /\ s[1] = " "

\* t occurs in s as a contiguous substring
Contains(s, t) ==
  \E i \in 1..(Len(s) - Len(t) + 1) : SubSeq(s, i, i + Len(t) - 1) = t

\* ------------------------------------------------------------------ errors
E492 == "E492"
E488 == "E488"
ErrorCodes == {E492, E488}

VimError(c) == [type |-> "VimError", code |-> c]
OtherError == [type |-> "Error", code |-> "none"]
Throwables == {VimError(c) : c \in ErrorCodes} \cup {OtherError}
NoError == [type |-> "none", code |-> "none", origin |-> "none"]

\* e thrown by the collaborator `from`
Thrown(e, from) == [type |-> e.type, code |-> e.code, origin |-> from]

\* VimError.toString(): the code followed by its message
ErrToString(e) ==
  IF e.code = E492
    THEN <<"E", "4", "9", "2", ":", " ", "N", "o", "t", " ", "a", "n", " ",
           "e", "d", "i", "t", "o", "r", " ", "c", "o", "m", "m", "a", "n", "d">>
    ELSE <<"E", "4", "8", "8", ":", " ", "T", "r", "a", "i", "l", "i", "n", "g", " ",
           "c", "h", "a", "r", "a", "c", "t", "e", "r", "s">>

\* a status text that leaves the command out
ErrorStatusNoCommand(e, c) == ErrToString(e)

\* `${e.toString()}. ${command}`
ErrorStatus(e, c) == ErrToString(e) \o <<".", " ">> \o c

\* ------------------------------------------------------------------- state
VARIABLES
  history,        \* CommandLineHistory contents, oldest first
  historyIndex,   \* _commandLineHistoryIndex
  memo,           \* TRUE once setMemo gave the instance a Memento
  store,          \* the list the host keeps under VIM_HISTORY_KEY
  enableNeovim,   \* configuration.enableNeovim
  pc,             \* position of the running Run invocation
  command,        \* Run's local `command`
  cmd,            \* the parsed command: [hasCommand, neovimCapable]
  statusBarText,  \* Run's local `statusBarText`
  caught,         \* the error the catch clause of Run received
  run,            \* what the current (or last) Run invocation did
  prompt,         \* promptForCommand: "closed", "pending", "settled", "returned"
  items,          \* input.items, the displayed list
  settled,        \* the value the prompt's promise was resolved with
  widget,         \* the quick pick: "none", "visible", "hidden", "disposed"
  hideEvent,      \* a hide event is on its way to the extension
  subs,           \* the subscriptions in `disposables` not yet disposed
  pr,             \* what the current (or last) prompt invocation did
  sh              \* what the last ShowHistory invocation did

runVars == <<pc, command, cmd, statusBarText, caught, run>>
promptVars == <<prompt, items, settled, widget, hideEvent, subs, pr>>
vars == <<history, historyIndex, memo, store, enableNeovim,
          pc, command, cmd, statusBarText, caught, run,
          prompt, items, settled, widget, hideEvent, subs, pr, sh>>

NoCmd == [hasCommand |-> FALSE, neovimCapable |-> FALSE]

\* the record of an invocation that has done nothing yet
FreshRun(text) ==
  [arg |-> text,
   history0 |-> history, index0 |-> historyIndex, store0 |-> store,
   parseCalls |-> 0, parsed |-> FALSE, useNeovim |-> FALSE,
   executeCalls |-> 0,
   nvimTryCalls |-> 0, nvimCatchCalls |-> 0,
   nvimReturned |-> Undefined, nvimCatchReturned |-> Undefined,
   status |-> <<>>, logged |-> 0,
   result |-> "pending"]

\* new CommandItem(type, label, description); the description is display only
CommandItem(type, label) == [type |-> type, label |-> label]

Subscriptions == {"value", "selection", "hide"}

\* the record of a prompt invocation that has done nothing yet
FreshPrompt(text) ==
  [seed |-> text, store0 |-> store, memo0 |-> memo, history0 |-> history,
   value |-> text,
   selected |-> CommandItem("none", Undefined),
   settledBy |-> "none", settles |-> 0,
   disposed |-> [d \in Subscriptions |-> 0],
   widgetDisposed |-> 0]

\* the record of a ShowHistory invocation that has not happened
NoShow ==
  [seed |-> Undefined, active |-> FALSE, called |-> FALSE,
   history0 |-> <<>>, index0 |-> 0, store0 |-> <<>>,
   shown |-> <<>>, result |-> Undefined]

Init ==
  /\ history = <<>>
  /\ historyIndex = 0
  /\ memo = FALSE
  /\ store = <<>>
  /\ enableNeovim \in BOOLEAN
  /\ pc = "idle"
  /\ command = Undefined
  /\ cmd = NoCmd
  /\ statusBarText = Undefined
  /\ caught = NoError
  /\ run = FreshRun(Undefined)
  /\ prompt = "closed"
  /\ items = <<>>
  /\ settled = Undefined
  /\ widget = "none"
  /\ hideEvent = FALSE
  /\ subs = {}
  /\ pr = FreshPrompt(Undefined)
  /\ sh = NoShow

\* CommandLineHistory.add: appends unconditionally
HistoryAdd(h, text) == Append(h, text)

\* a cursor left on the last entry instead of one past it
LastIndex(h) == Len(h) - 1

\* this._history.get().length
CursorAfterAdd(h) == Len(h)

\* an eligibility test that forgets the command's own flag
UseNeovimAnyCommand(en, c) == en /\ c.hasCommand

\* configuration.enableNeovim && cmd.command && cmd.command.neovimCapable
UseNeovim(en, c) == en /\ c.hasCommand /\ c.neovimCapable

\* ---------------------------------------------------------------- Run
\* lines 59-74: the guard, the ':' strip, the help intercept, the history add
RunEntry(text) ==
  LET c == StripColon(text) IN
  /\ cmd' = NoCmd
  /\ statusBarText' = Undefined
  /\ caught' = NoError
  /\ IF Falsy(text)
       THEN /\ run' = [FreshRun(text) EXCEPT !.result = "resolved"]
            /\ pc' = "done"
            /\ command' = text
            /\ UNCHANGED <<history, historyIndex>>
       ELSE IF c = HelpText
         THEN /\ command' = c
              /\ pc' = "done"
              /\ UNCHANGED <<history, historyIndex>>
              \* StatusBar.Set is outside the try block
              /\ \E ok \in BOOLEAN :
                   run' = [FreshRun(text) EXCEPT
                             !.status = <<HelpNotSupported>>,
                             !.result = IF ok THEN "resolved" ELSE "rejected"]
         ELSE /\ Len(history) < MaxHistory
              /\ command' = c
              /\ history' = HistoryAdd(history, c)
              /\ historyIndex' = CursorAfterAdd(history')
              /\ run' = FreshRun(text)
              /\ pc' = "parse"

\* a caller invokes Run(command, vimState); what an earlier prompt left
\* behind is unreachable by now
Run ==
  /\ pc \in {"idle", "done"}
  /\ prompt = "closed"
  /\ ~hideEvent
  /\ \E text \in RunTexts : RunEntry(text)
  /\ UNCHANGED <<memo, store, enableNeovim>>
  /\ UNCHANGED <<prompt, items, hideEvent, subs>>
  /\ settled' = Undefined
  /\ widget' = "none"
  /\ pr' = FreshPrompt(Undefined)
  /\ sh' = NoShow

\* enter the catch clause with e
Catch(e, from) ==
  /\ caught' = Thrown(e, from)
  /\ pc' = "catch"

\* lines 77-78: parser.parse(command) and the choice of engine
Parse ==
  /\ UNCHANGED <<prompt, items, settled, subs, pr, sh>>
  /\ UNCHANGED <<widget, hideEvent>>
  /\ pc = "parse"
  /\ UNCHANGED <<history, historyIndex, memo, store, enableNeovim, command, statusBarText>>
  /\ \/ \E hc \in BOOLEAN, nc \in BOOLEAN :
          LET parsed == [hasCommand |-> hc, neovimCapable |-> hc /\ nc]
              useNeovim == UseNeovim(enableNeovim, parsed) IN
          /\ cmd' = parsed
          /\ run' = [run EXCEPT !.parseCalls = @ + 1, !.parsed = TRUE,
                                !.useNeovim = useNeovim]
          /\ pc' = IF useNeovim THEN "nvim" ELSE "execute"
          /\ UNCHANGED caught
     \/ \E e \in Throwables :
          /\ run' = [run EXCEPT !.parseCalls = @ + 1]
          /\ Catch(e, "parser")
          /\ UNCHANGED cmd

\* line 81: await vimState.nvim.run(vimState, command)
NvimRun ==
  /\ UNCHANGED <<prompt, items, settled, subs, pr, sh>>
  /\ UNCHANGED <<widget, hideEvent>>
  /\ pc = "nvim"
  /\ UNCHANGED <<history, historyIndex, memo, store, enableNeovim, command, cmd>>
  /\ \/ \E t \in NvimTexts :
          /\ statusBarText' = t
          /\ run' = [run EXCEPT !.nvimTryCalls = @ + 1,
                                !.nvimReturned = t]
          /\ pc' = "set"
          /\ UNCHANGED caught
     \/ \E e \in Throwables :
          /\ run' = [run EXCEPT !.nvimTryCalls = @ + 1]
          /\ Catch(e, "nvim")
          /\ UNCHANGED statusBarText

\* line 82: StatusBar.Set(statusBarText, ...)
SetStatus ==
  /\ UNCHANGED <<prompt, items, settled, subs, pr, sh>>
  /\ UNCHANGED <<widget, hideEvent>>
  /\ pc = "set"
  /\ UNCHANGED <<history, historyIndex, memo, store, enableNeovim, command, cmd,
                 statusBarText>>
  /\ \/ pc' = "done" /\ UNCHANGED caught
     \/ \E e \in Throwables : Catch(e, "statusBar")
  /\ run' = [run EXCEPT !.status = Append(@, statusBarText),
                        !.result = IF pc' = "done" THEN "resolved" ELSE @]

\* line 84: await cmd.execute(vimState.editor, vimState)
Execute ==
  /\ UNCHANGED <<prompt, items, settled, subs, pr, sh>>
  /\ UNCHANGED <<widget, hideEvent>>
  /\ pc = "execute"
  /\ UNCHANGED <<history, historyIndex, memo, store, enableNeovim, command, cmd,
                 statusBarText>>
  /\ \/ pc' = "done" /\ UNCHANGED caught
     \/ \E e \in Throwables : Catch(e, "execute")
  /\ run' = [run EXCEPT !.executeCalls = @ + 1,
                        !.result = IF pc' = "done" THEN "resolved" ELSE @]

\* a test that looks for the wrong error code
RerouteWrongCode(e, en) == e.code = E488 /\ en

\* a test that hands every VimError to the fallback engine when it is enabled
RerouteAnyCode(e, en) == en

\* line 88: e.code === ErrorCode.E492 && configuration.enableNeovim
Reroute(e, en) == e.code = E492 /\ en

\* a classification that takes every error for a VimError
HandlerNoInstanceof(e, en) == IF Reroute(e, en) THEN "nvim" ELSE "status"

\* lines 87-100: which branch of the catch clause handles e
Handler(e, en) ==
  IF e.type = "VimError"
    THEN IF Reroute(e, en) THEN "nvim" ELSE "status"
    ELSE "log"

\* lines 86-100: the catch clause, up to its await
CatchClause ==
  /\ UNCHANGED <<prompt, items, settled, subs, pr, sh>>
  /\ UNCHANGED <<widget, hideEvent>>
  /\ pc = "catch"
  /\ UNCHANGED <<history, historyIndex, memo, store, enableNeovim, command, cmd,
                 statusBarText, caught>>
  /\ CASE Handler(caught, enableNeovim) = "nvim" ->
            /\ pc' = "catchNvim"
            /\ UNCHANGED run
       [] Handler(caught, enableNeovim) = "status" ->
            \* StatusBar.Set inside the catch clause: a throw leaves Run
            /\ pc' = "done"
            /\ \E ok \in BOOLEAN :
                 run' = [run EXCEPT
                   !.status = Append(@, ErrorStatus(caught, command)),
                   !.result = IF ok THEN "resolved" ELSE "rejected"]
       [] OTHER ->
            \* this._logger.error(...)
            /\ pc' = "done"
            /\ run' = [run EXCEPT !.logged = @ + 1, !.result = "resolved"]

\* line 89: await vimState.nvim.run(vimState, command), its result dropped
CatchNvimRun ==
  /\ UNCHANGED <<prompt, items, settled, subs, pr, sh>>
  /\ UNCHANGED <<widget, hideEvent>>
  /\ pc = "catchNvim"
  /\ UNCHANGED <<history, historyIndex, memo, store, enableNeovim, command, cmd,
                 statusBarText, caught>>
  /\ pc' = "done"
  /\ \/ \E t \in NvimTexts :
          run' = [run EXCEPT !.nvimCatchCalls = @ + 1,
                             !.nvimCatchReturned = t,
                             !.result = "resolved"]
     \/ run' = [run EXCEPT !.nvimCatchCalls = @ + 1, !.result = "rejected"]

\* setMemo(memo)
SetMemo ==
  /\ pc \in {"idle", "done"}
  /\ prompt = "closed"
  /\ ~memo
  /\ memo' = TRUE
  /\ UNCHANGED <<history, historyIndex, store, enableNeovim>>
  /\ UNCHANGED runVars
  /\ UNCHANGED promptVars
  /\ UNCHANGED sh

\* ------------------------------------------------------------- the prompt
\* lines 164-171: the memento's list wrapped as 'history' items
HistoryItems(m, st) ==
  IF ~m THEN <<>> ELSE [i \in 1..Len(st) |-> CommandItem("history", st[i])]

\* lines 121 and 172: the list the prompt opens with
InitialItems(text, m, st) ==
  (IF ~Falsy(text) THEN <<CommandItem("input", text)>> ELSE <<>>)
    \o HistoryItems(m, st)

\* an update that never replaces the typed item
UpdateQuickPickPrepend(its, value) ==
  IF Falsy(value) THEN its ELSE <<CommandItem("input", value)>> \o its

\* lines 123-136: updateQuickPick(value)
UpdateQuickPick(its, value) ==
  LET hasInput == Len(its) > 0 /\ its[1].type = "input" IN
  IF Falsy(value)
    THEN IF hasInput THEN Tail(its) ELSE its
    ELSE IF hasInput
      THEN <<CommandItem("input", value)>> \o Tail(its)
      ELSE <<CommandItem("input", value)>> \o its

\* a store that records the new entry at the end
Push(st, label) == Append(st, label)

\* line 153: currentHistory.unshift(item.label)
Unshift(st, label) == <<label>> \o st

\* a test that records recalled items too
RecordsAnyType(item, m) == ~StartsWithSpace(item.label) /\ m

\* a test that records texts with a leading space too
RecordsWithSpace(item, m) == item.type = "input" /\ m

\* a test that forgets to look for the memento
RecordsNoMemo(item, m) == item.type = "input" /\ ~StartsWithSpace(item.label)

\* line 151: the selected item is recorded in the memento
Records(item, m) ==
  item.type = "input" /\ ~StartsWithSpace(item.label) /\ m

\* a resolve whose later calls replace the value
ResolveAgain(value) ==
  prompt' = (IF prompt = "pending" THEN "settled" ELSE prompt) /\ settled' = value

\* resolve(value): only the first call settles the promise
Resolve(value) ==
  IF prompt = "pending"
    THEN prompt' = "settled" /\ settled' = value
    ELSE UNCHANGED <<prompt, settled>>

\* the prompt record after a handler called resolve
Settling(rec, by) ==
  IF settled' # settled \/ prompt' # prompt
    THEN [rec EXCEPT !.settles = @ + 1,
                     !.settledBy = IF @ = "none" THEN by ELSE @]
    ELSE rec

\* a hide handler that resolves with the text being typed
DismissedValueTyped(its) ==
  IF Len(its) > 0 /\ its[1].type = "input" THEN its[1].label ELSE Undefined

\* line 159: resolve(undefined)
DismissedValue(its) == Undefined

\* a finally block that leaves the hide subscription alive
DisposeAllButHide(s) == s \cap {"hide"}

\* line 175: disposables.forEach(d => d.dispose()); the subscriptions left
DisposeAll(s) == {}

\* lines 104-113 and 116-173: PromptAndRun up to the await of the prompt
PromptAndRun ==
  /\ pc \in {"idle", "done"}
  /\ prompt = "closed"
  /\ ~hideEvent
  /\ Len(history) < MaxHistory
  /\ \E active \in BOOLEAN, text \in PromptTexts :
       IF ~active
         THEN \* no vscode.window.activeTextEditor: log and return
              UNCHANGED vars
         ELSE /\ items' = InitialItems(text, memo, store)
              /\ subs' = Subscriptions
              /\ widget' = "visible"
              /\ hideEvent' = FALSE
              /\ prompt' = "pending"
              /\ settled' = Undefined
              /\ pr' = FreshPrompt(text)
              /\ pc' = "idle"
              /\ command' = Undefined
              /\ cmd' = NoCmd
              /\ statusBarText' = Undefined
              /\ caught' = NoError
              /\ run' = FreshRun(Undefined)
              /\ sh' = NoShow
              /\ UNCHANGED <<history, historyIndex, memo, store, enableNeovim>>

\* line 139: input.onDidChangeValue(updateQuickPick)
ChangeValue ==
  /\ widget = "visible"
  /\ "value" \in subs
  /\ \E v \in PromptTexts :
       /\ items' = UpdateQuickPick(items, v)
       /\ pr' = [pr EXCEPT !.value = v]
  /\ UNCHANGED <<history, historyIndex, memo, store, enableNeovim>>
  /\ UNCHANGED runVars
  /\ UNCHANGED <<prompt, settled, widget, hideEvent, subs, sh>>

\* lines 140-157: the selection handler
ChangeSelection ==
  /\ widget = "visible"
  /\ "selection" \in subs
  /\ \E i \in 1..Len(items) :
       LET item == items[i] IN
       /\ Records(item, memo) => Len(store) < MaxStore
       /\ Resolve(item.label)
       \* input.hide(): the widget closes, its hide event follows
       /\ widget' = "hidden"
       /\ hideEvent' = TRUE
       /\ store' = IF Records(item, memo) THEN Unshift(store, item.label) ELSE store
       /\ pr' = Settling([pr EXCEPT !.selected = item], "selection")
  /\ UNCHANGED <<history, historyIndex, memo, enableNeovim>>
  /\ UNCHANGED runVars
  /\ UNCHANGED <<items, subs, sh>>

\* the user dismisses the widget without selecting
Dismiss ==
  /\ widget = "visible"
  /\ widget' = "hidden"
  /\ hideEvent' = TRUE
  /\ UNCHANGED <<history, historyIndex, memo, store, enableNeovim>>
  /\ UNCHANGED runVars
  /\ UNCHANGED <<prompt, items, settled, subs, pr, sh>>

\* lines 158-161: the hide event reaches the extension; its handler runs
\* if its subscription is still alive
DidHide ==
  /\ hideEvent
  /\ hideEvent' = FALSE
  /\ IF "hide" \in subs
       THEN /\ Resolve(DismissedValue(items))
            \* input.dispose()
            /\ widget' = "disposed"
            /\ pr' = Settling([pr EXCEPT !.widgetDisposed = @ + 1], "dismissal")
       ELSE UNCHANGED <<prompt, settled, widget, pr>>
  /\ UNCHANGED <<history, historyIndex, memo, store, enableNeovim>>
  /\ UNCHANGED runVars
  /\ UNCHANGED <<items, subs, sh>>

\* lines 174-176: the promise has settled, the finally block runs
Finally ==
  /\ prompt = "settled"
  /\ prompt' = "returned"
  /\ subs' = DisposeAll(subs)
  /\ pr' = [pr EXCEPT !.disposed = [d \in Subscriptions |->
                                     IF d \in subs \ subs' THEN @[d] + 1 ELSE @[d]]]
  /\ UNCHANGED <<history, historyIndex, memo, store, enableNeovim>>
  /\ UNCHANGED runVars
  /\ UNCHANGED <<items, settled, widget, hideEvent, sh>>

\* line 113: await this.Run(cmd!, vimState); the prompt's closure is released
PromptReturn ==
  /\ prompt = "returned"
  /\ prompt' = "closed"
  /\ RunEntry(settled)
  /\ items' = <<>>
  /\ UNCHANGED <<memo, store, enableNeovim>>
  /\ UNCHANGED <<settled, widget, hideEvent, subs, pr, sh>>

\* ---------------------------------------------------------- ShowHistory
RECURSIVE Reverse(_)
\* Array.prototype.reverse, on the copy made by slice()
Reverse(l) == IF l = <<>> THEN <<>> ELSE Append(Reverse(Tail(l)), Head(l))

\* a list shown oldest first
ShownOldestFirst(h) == h

\* lines 197-200: this._history.get().slice().reverse()
ShownList(h) == Reverse(h)

\* what showQuickPick may resolve with: an entry of the list, or undefined
Picks(l) == {l[i] : i \in 1..Len(l)} \cup {Undefined}

\* lines 188-208: ShowHistory(initialText, vimState)
ShowHistory ==
  /\ pc \in {"idle", "done"}
  /\ prompt = "closed"
  /\ ~hideEvent
  /\ \E active \in BOOLEAN, text \in ShowTexts :
       LET rec == [NoShow EXCEPT !.seed = text, !.active = active, !.called = TRUE,
                                 !.history0 = history, !.index0 = historyIndex,
                                 !.store0 = store] IN
       IF ~active
         THEN \* no vscode.window.activeTextEditor: log and return ''
              /\ sh' = [rec EXCEPT !.result = Empty]
              /\ UNCHANGED history
         ELSE /\ Len(history) < MaxHistory
              /\ history' = HistoryAdd(history, text)
              /\ \E choice \in Picks(ShownList(history')) :
                   sh' = [rec EXCEPT !.shown = ShownList(history'),
                                     !.result = choice]
  /\ pc' = "idle"
  /\ command' = Undefined
  /\ cmd' = NoCmd
  /\ statusBarText' = Undefined
  /\ caught' = NoError
  /\ run' = FreshRun(Undefined)
  /\ pr' = FreshPrompt(Undefined)
  /\ settled' = Undefined
  /\ widget' = "none"
  /\ UNCHANGED <<historyIndex, memo, store, enableNeovim>>
  /\ UNCHANGED <<prompt, items, hideEvent, subs>>

Next ==
  \/ ShowHistory
  \/ PromptAndRun
  \/ ChangeValue
  \/ ChangeSelection
  \/ Dismiss
  \/ DidHide
  \/ Finally
  \/ PromptReturn
  \/ Run
  \/ Parse
  \/ NvimRun
  \/ SetStatus
  \/ Execute
  \/ CatchClause
  \/ CatchNvimRun
  \/ SetMemo

Spec == Init /\ [][Next]_vars

\* ------------------------------------------------------------ properties
RunDone == pc = "done"
NvimCalls == run.nvimTryCalls + run.nvimCatchCalls

\* the catch clause received a VimError raised by the parser or by execute
DomainFailure ==
  /\ caught.type = "VimError"
  /\ caught.origin \in {"parser", "execute"}

\* C1 (as stated): for every non-empty command text, once Run has completed
\* the HistoryStore is one entry longer than before and the cursor equals
\* the new length.
C1_AsStated ==
  (RunDone /\ run.arg \notin {Undefined, Empty}) =>
     /\ Len(history) = Len(run.history0) + 1
     /\ historyIndex = Len(history)

\* C1 (amended): for every non-empty command text other than 'help' and
\* ':help', once Run has completed the HistoryStore is its previous contents
\* plus one entry and the cursor equals the new length, whatever parsing
\* and execution did.
C1_HistoryGrowsByOne ==
  (RunDone /\ run.arg \notin {Undefined, Empty, HelpText, ColonHelp}) =>
     /\ Len(history) = Len(run.history0) + 1
     /\ SubSeq(history, 1, Len(run.history0)) = run.history0
     /\ historyIndex = Len(history)

C1_Witness ==
  /\ RunDone
  /\ run.arg = ColonW
  /\ caught.type = "Error"
  /\ history = Append(run.history0, W)
  /\ Len(run.history0) = 1

\* C2: a VimError E492 from the parser or from execute, with the fallback
\* enabled, makes Run call the fallback engine exactly once and make no
\* status update that carries the error text.
C2_UnknownCommandRerouted ==
  (RunDone /\ DomainFailure /\ caught.code = E492 /\ enableNeovim) =>
     /\ NvimCalls = 1
     /\ \A i \in 1..Len(run.status) : ~Contains(run.status[i], ErrToString(caught))

C2_Witness ==
  /\ RunDone
  /\ DomainFailure
  /\ caught.code = E492
  /\ caught.origin = "execute"
  /\ enableNeovim
  /\ run.nvimCatchCalls = 1

\* C3: when an E492 failure is re-routed to the fallback engine and the
\* engine returns a status text, the status display is set to that text.
C3_ReroutedResultShown ==
  (RunDone /\ DomainFailure /\ caught.code = E492 /\ enableNeovim
     /\ run.nvimCatchReturned # Undefined) =>
     /\ Len(run.status) > 0
     /\ run.status[Len(run.status)] = run.nvimCatchReturned

\* C4: a VimError from the parser or from execute that is not E492, or any
\* such VimError while the fallback is disabled, makes Run update the status
\* exactly once, with a text that contains the formatted error and the
\* command, and never call the fallback engine.
C4_DomainErrorReported ==
  (RunDone /\ DomainFailure /\ ~(caught.code = E492 /\ enableNeovim)) =>
     /\ Len(run.status) = 1
     /\ Contains(run.status[1], ErrToString(caught))
     /\ Contains(run.status[1], command)
     /\ run.arg \in {command, <<":">> \o command}
     /\ NvimCalls = 0

C4_Witness ==
  /\ RunDone
  /\ DomainFailure
  /\ caught.code = E492
  /\ ~enableNeovim
  /\ command = W
  /\ Len(run.status) = 1

\* C5: Run's promise always resolves; no failure reaches the caller.
C5_NothingEscapesRun ==
  RunDone => run.result = "resolved"

\* C6: when parsing succeeds, the try block calls the fallback engine if and
\* only if enableNeovim is set and the parsed command is neovim capable; then
\* execute is not called and the status is set to the text the engine
\* returned; otherwise execute is called exactly once.
C6_EngineChoice ==
  (RunDone /\ run.parsed) =>
     LET eligible == enableNeovim /\ cmd.hasCommand /\ cmd.neovimCapable IN
     /\ run.parseCalls = 1
     /\ eligible => /\ run.nvimTryCalls = 1
                     /\ run.executeCalls = 0
                     /\ run.nvimReturned # Undefined =>
                           /\ Len(run.status) >= 1
                           /\ run.status[1] = run.nvimReturned
     /\ ~eligible => /\ run.nvimTryCalls = 0
                      /\ run.executeCalls = 1

C6_Witness ==
  /\ RunDone
  /\ run.parsed
  /\ enableNeovim
  /\ cmd.neovimCapable
  /\ run.nvimReturned = <<"o", "k">>
  /\ run.status = <<run.nvimReturned>>

\* C7: Run('help') and Run(':help') call neither the parser, nor execute,
\* nor the fallback engine, leave the HistoryStore and the cursor as they
\* were and make exactly one status update, the fixed message.
C7_HelpIntercepted ==
  (RunDone /\ run.arg \in {HelpText, ColonHelp}) =>
     /\ run.parseCalls = 0
     /\ run.executeCalls = 0
     /\ NvimCalls = 0
     /\ history = run.history0
     /\ historyIndex = run.index0
     /\ run.status = <<HelpNotSupported>>

C7_Witness ==
  /\ RunDone
  /\ run.arg = ColonHelp
  /\ Len(history) = 1
  /\ run.status = <<HelpNotSupported>>

\* C8: Run with an empty or absent text changes neither store nor the
\* cursor, makes no status update and calls neither the parser nor the
\* fallback engine.
C8_EmptyIsNoOp ==
  (RunDone /\ run.arg \in {Undefined, Empty}) =>
     /\ history = run.history0
     /\ historyIndex = run.index0
     /\ store = run.store0
     /\ run.status = <<>>
     /\ run.parseCalls = 0
     /\ run.executeCalls = 0
     /\ NvimCalls = 0

C8_Witness ==
  /\ RunDone
  /\ run.arg = Empty
  /\ Len(history) = 1
  /\ Len(store) = 1

\* C9: an error that is not a VimError, raised by the parser, by execute or
\* by the fallback engine, is logged once; the catch clause makes no status
\* update and does not call the fallback engine.
C9_UnclassifiedOnlyLogged ==
  (RunDone /\ caught.type = "Error"
     /\ caught.origin \in {"parser", "execute", "nvim"}) =>
     /\ run.logged = 1
     /\ run.status = <<>>
     /\ run.nvimCatchCalls = 0
     /\ run.result = "resolved"

C9_Witness ==
  /\ RunDone
  /\ caught.type = "Error"
  /\ caught.origin = "nvim"
  /\ run.logged = 1

\* the prompt settled by the selection of a typed item without leading space
TypedSelected ==
  /\ prompt \in {"settled", "returned"}
  /\ pr.selected.type = "input"
  /\ ~StartsWithSpace(pr.selected.label)

\* C10 (as stated): selecting the Typed item with text t, t not starting
\* with a space, resolves the prompt with t and leaves the persisted list
\* equal to t followed by its previous contents.
C10_AsStated ==
  TypedSelected =>
     /\ settled = pr.selected.label
     /\ store = <<pr.selected.label>> \o pr.store0

\* C10 (amended): when a Memento has been set, selecting the Typed item with
\* text t, t not starting with a space, resolves the prompt with t and
\* leaves the persisted list equal to t followed by its previous contents in
\* their previous order; without a Memento the prompt resolves with t and
\* the persisted list is left as it was.
C10_TypedSelectionRecorded ==
  TypedSelected =>
     /\ settled = pr.selected.label
     /\ store = IF memo THEN <<pr.selected.label>> \o pr.store0 ELSE pr.store0

C10_Witness ==
  /\ TypedSelected
  /\ memo
  /\ pr.seed = HelpText
  /\ pr.selected.label = W
  /\ pr.store0 = <<HelpText>>
  /\ store = <<W, HelpText>>

\* the promise of the current (or last) prompt invocation has settled
PromptSettled ==
  /\ pr.seed # Undefined
  /\ prompt \in {"settled", "returned", "closed"}

\* promptForCommand has returned
PromptFinished ==
  /\ pr.seed # Undefined
  /\ prompt \in {"returned", "closed"}

\* C11: selecting a Recalled item resolves the prompt with the item's text
\* and leaves the persisted list as it was, in order and in length.
C11_RecalledSelectionKeepsStore ==
  (PromptSettled /\ pr.selected.type = "history") =>
     /\ settled = pr.selected.label
     /\ store = pr.store0

C11_Witness ==
  /\ PromptSettled
  /\ pr.selected = [type |-> "history", label |-> HelpText]
  /\ pr.value = W
  /\ pr.store0 = <<W, HelpText>>
  /\ settled = HelpText

\* C12: selecting a Typed item whose text begins with a space resolves the
\* prompt with that text and leaves the persisted list as it was; the
\* persisted list never holds an entry that begins with a space.
C12_SpaceTypedNotRecorded ==
  /\ (PromptSettled /\ pr.selected.type = "input"
        /\ pr.selected.label # <<>> /\ pr.selected.label[1] = " ") =>
       /\ settled = pr.selected.label
       /\ store = pr.store0
  /\ \A i \in 1..Len(store) : store[i] = <<>> \/ store[i][1] # " "

C12_Witness ==
  /\ PromptSettled
  /\ pr.selected = [type |-> "input", label |-> SpaceW]
  /\ settled = SpaceW
  /\ memo
  /\ store = <<W>>

\* the prompt was dismissed without a selection
Dismissed == PromptSettled /\ pr.selected.type = "none"

\* C13: a prompt dismissed without a selection resolves to undefined and
\* leaves the persisted list as it was; PromptAndRun then leaves the
\* HistoryStore as it was and makes no status update.
C13_CancellationSilent ==
  Dismissed =>
     /\ settled = Undefined
     /\ store = pr.store0
     /\ history = pr.history0
     /\ prompt = "closed" =>
          /\ pc = "done"
          /\ run.arg = Undefined
          /\ run.status = <<>>
          /\ run.parseCalls = 0
          /\ run.result = "resolved"

C13_Witness ==
  /\ Dismissed
  /\ prompt = "closed"
  /\ pr.seed = W
  /\ pr.value = HelpText
  /\ Len(store) = 1
  /\ Len(history) = 1

\* C14: the prompt's promise settles exactly once per invocation, by the
\* selection or by the dismissal; after a selection settled it with the
\* selected text, the hide event does not settle it again and does not
\* change the value to undefined.
C14_SettlesExactlyOnce ==
  /\ prompt = "pending" => (pr.settles = 0 /\ pr.settledBy = "none")
  /\ PromptSettled =>
       /\ pr.settles = 1
       /\ pr.settledBy \in {"selection", "dismissal"}
       /\ pr.settledBy = "selection" =>
            (pr.selected.type # "none" /\ settled = pr.selected.label)
       /\ pr.settledBy = "dismissal" =>
            (pr.selected.type = "none" /\ settled = Undefined)

C14_Witness ==
  /\ PromptSettled
  /\ pr.settledBy = "selection"
  /\ ~hideEvent
  /\ pr.widgetDisposed = 1
  /\ settled = W

\* C15: none of the three subscriptions is disposed before the promise has
\* settled, and once promptForCommand has returned each of them has been
\* disposed exactly once, whichever transition settled the promise.
C15_SubscriptionsReleasedOnce ==
  /\ prompt \in {"pending", "settled"} =>
       /\ subs = {"value", "selection", "hide"}
       /\ \A d \in {"value", "selection", "hide"} : pr.disposed[d] = 0
  /\ PromptFinished =>
       /\ subs = {}
       /\ \A d \in {"value", "selection", "hide"} : pr.disposed[d] = 1

C15_Witness ==
  /\ PromptFinished
  /\ pr.settledBy = "dismissal"
  /\ \A d \in {"value", "selection", "hide"} : pr.disposed[d] = 1

\* C16: every entry of the HistoryStore is a non-empty string.
C16_HistoryEntriesNonEmpty ==
  \A i \in 1..Len(history) : history[i] # <<>>

\* C17 (as stated): the HistoryStore is changed only by Run, the persisted
\* list only by the prompt's selection step.
C17_AsStated ==
  [][ /\ history' # history => (Run \/ PromptReturn)
      /\ store' # store => ChangeSelection ]_vars

\* C17 (amended): the HistoryStore is changed only by Run and by
\* ShowHistory, each appending one entry; the persisted list is changed only
\* by the prompt's selection step, for a Typed item and through the Memento;
\* no other step changes either store.
C17_Writers ==
  [][ /\ history' # history =>
            /\ Run \/ PromptReturn \/ ShowHistory
            /\ Len(history') = Len(history) + 1
            /\ SubSeq(history', 1, Len(history)) = history
      /\ store' # store =>
            /\ ChangeSelection
            /\ pr'.selected.type = "input"
            /\ memo ]_vars

C17_Witness ==
  /\ sh.called
  /\ sh.active
  /\ sh.seed = W
  /\ history = Append(sh.history0, W)
  /\ Len(store) = 1

\* C18: while a prompt is open its list is the Typed item of the last value
\* (of the seed before any value change) when that text is not empty,
\* followed by the Recalled items of the entries read when the prompt
\* opened, in their order; no item after the first is a Typed item.
C18_DisplayedList ==
  (pr.seed # Undefined /\ prompt \in {"pending", "settled", "returned"}) =>
     LET recalled == IF pr.memo0
                       THEN [i \in 1..Len(pr.store0) |->
                               [type |-> "history", label |-> pr.store0[i]]]
                       ELSE <<>>
         typed == IF pr.value = <<>>
                    THEN <<>>
                    ELSE <<[type |-> "input", label |-> pr.value]>>
     IN /\ items = typed \o recalled
        /\ \A i \in 2..Len(items) : items[i].type = "history"

C18_Witness ==
  /\ prompt = "pending"
  /\ pr.seed = HelpText
  /\ pr.value = SpaceW
  /\ Len(items) = 3
  /\ items[2].label # items[3].label

\* C19: with an active editor ShowHistory appends the seed, shows the
\* HistoryStore reversed (the seed first) without reordering the store and
\* returns an entry of the list or undefined; with no active editor it
\* appends nothing and returns no command (the empty string).
C19_ShowHistoryReversed ==
  sh.called =>
     IF sh.active
       THEN /\ history = Append(sh.history0, sh.seed)
            /\ Len(sh.shown) = Len(history)
            /\ \A i \in 1..Len(history) :
                  sh.shown[i] = history[Len(history) + 1 - i]
            /\ \/ sh.result = Undefined
               \/ \E i \in 1..Len(sh.shown) : sh.result = sh.shown[i]
       ELSE /\ history = sh.history0
            /\ sh.shown = <<>>
            /\ sh.result \in {Undefined, <<>>}

C19_Witness ==
  /\ sh.called
  /\ sh.active
  /\ history = <<W, <<>>>>
  /\ sh.shown = <<<<>>, W>>
  /\ sh.result = W

\* C20: once promptForCommand has returned and the hide event has been
\* delivered, the quick pick has been disposed exactly once.
C20_WidgetDisposedOnce ==
  (PromptFinished /\ ~hideEvent) => pr.widgetDisposed = 1

====
